---- MODULE Spec2Model ----
(***************************************************************************)
(* functorch vmap batching rules for view-like operators                   *)
(* (functorch/csrc/BatchRulesViews.cpp).                                   *)
(*                                                                         *)
(* A tensor is a record [shape, at]: shape is the sequence of dimension    *)
(* sizes and at maps every 0-based index tuple to the element stored       *)
(* there.  An optional<int64_t> is a sequence of length 0 (nullopt) or 1.  *)
(***************************************************************************)
EXTENDS Integers, Sequences, FiniteSets, TLC

\* ------------------------------------------------------------- bounds
MaxRank == 4
MaxDim == 2
MaxNumel == 8
MaxRepeat == 2
MaxArgs == 2
MaxOffset == 2
MaxBatch == 2
MaxCalls == 2

\* ------------------------------------------------------------ optional
nullopt == <<>>
Some(v) == <<v>>
has_value(o) == Len(o) = 1
value(o) == o[1]

\* ----------------------------------------------------- sequence helpers
Abs(x) == IF x < 0 THEN -x ELSE x
Min(a, b) == IF a < b THEN a ELSE b
Max(a, b) == IF a < b THEN b ELSE a

RECURSIVE Prod(_)
Prod(s) == IF s = <<>> THEN 1 ELSE Head(s) * Prod(Tail(s))

\* positions are 0-based, as in the C++ code
RemoveAt(s, i) == SubSeq(s, 1, i) \o SubSeq(s, i + 2, Len(s))
InsertAt(s, i, v) == SubSeq(s, 1, i) \o <<v>> \o SubSeq(s, i + 1, Len(s))

RECURSIVE SeqsUpTo(_, _)
SeqsUpTo(S, n) ==
  IF n = 0 THEN {<<>>}
  ELSE LET shorter == SeqsUpTo(S, n - 1)
       IN  shorter \cup {Append(s, x) : s \in {t \in shorter : Len(t) = n - 1}, x \in S}

\* ------------------------------------------------------------- tensors
RECURSIVE Indices(_)
Indices(shape) ==
  IF shape = <<>> THEN {<<>>}
  ELSE {<<i>> \o r : i \in 0..(Head(shape) - 1), r \in Indices(Tail(shape))}

RECURSIVE Linear(_, _)
Linear(shape, idx) ==
  IF shape = <<>> THEN 0
  ELSE Head(idx) * Prod(Tail(shape)) + Linear(Tail(shape), Tail(idx))

RECURSIVE Unravel(_, _)
Unravel(shape, k) ==
  IF shape = <<>> THEN <<>>
  ELSE <<k \div Prod(Tail(shape))>> \o Unravel(Tail(shape), k % Prod(Tail(shape)))

Tensor(shape, f(_)) == [shape |-> shape, at |-> [idx \in Indices(shape) |-> f(idx)]]
Rank(t) == Len(t.shape)
Numel(t) == Prod(t.shape)

\* a contiguous tensor whose elements are pairwise different: 1, 2, 3, ...
Iota(shape) == LET f(idx) == Linear(shape, idx) + 1 IN Tensor(shape, f)

\* c10::maybe_wrap_dim(dim, dim_post_expr): a rank of 0 is treated as 1
WrapRange(n) == LET m == IF n <= 0 THEN 1 ELSE n IN (-m)..(m - 1)
maybe_wrap_dim(dim, n) == LET m == IF n <= 0 THEN 1 ELSE n IN IF dim < 0 THEN dim + m ELSE dim

\* Tensor::movedim(src, dst), src and dst already wrapped
at_movedim(t, src, dst) ==
  LET f(idx) == t.at[InsertAt(RemoveAt(idx, dst), src, idx[dst + 1])]
  IN  Tensor(InsertAt(RemoveAt(t.shape, src), dst, t.shape[src + 1]), f)

\* Tensor::unsqueeze(dim): dim is wrapped into [0, rank]
CanUnsqueeze(t, dim) == dim \in WrapRange(Rank(t) + 1)
at_unsqueeze(t, dim) ==
  LET d == maybe_wrap_dim(dim, Rank(t) + 1)
      f(idx) == t.at[RemoveAt(idx, d)]
  IN  Tensor(InsertAt(t.shape, d, 1), f)

\* Tensor::repeat(repeats): needs at least one factor per dimension; the
\* shape is padded with leading 1s up to the number of factors
CanRepeat(t, reps) == Len(reps) >= Rank(t)
at_repeat(t, reps) ==
  LET pad == Len(reps) - Rank(t)
      shape == [i \in 1..Len(reps) |->
                  (IF i <= pad THEN 1 ELSE t.shape[i - pad]) * reps[i]]
      f(idx) == t.at[[i \in 1..Rank(t) |-> idx[pad + i] % t.shape[i]]]
  IN  Tensor(shape, f)

\* at::flip(self, dims): every dim is wrapped, no dim may appear twice
CanFlip(t, dims) ==
  /\ \A i \in 1..Len(dims) : dims[i] \in WrapRange(Rank(t))
  /\ \A i, j \in 1..Len(dims) :
       i # j => maybe_wrap_dim(dims[i], Rank(t)) # maybe_wrap_dim(dims[j], Rank(t))
at_flip(t, dims) ==
  LET ds == {maybe_wrap_dim(dims[i], Rank(t)) : i \in 1..Len(dims)}
      f(idx) == t.at[[i \in 1..Rank(t) |->
                        IF (i - 1) \in ds THEN t.shape[i] - 1 - idx[i] ELSE idx[i]]]
  IN  Tensor(t.shape, f)

\* length of the diagonal with the given offset of an r x c matrix
DiagLen(r, c, offset) ==
  IF offset >= 0 THEN Max(0, Min(r, c - offset)) ELSE Max(0, Min(r + offset, c))

\* at::diag_embed(self, offset, -2, -1): the last dimension becomes the
\* offset-th diagonal of a square matrix in the last two dimensions
at_diag_embed(t, offset) ==
  LET r == Rank(t)
      n == t.shape[r] + Abs(offset)
      f(idx) == IF idx[r + 1] - idx[r] = offset
                THEN t.at[SubSeq(idx, 1, r - 1) \o
                          <<IF offset >= 0 THEN idx[r] ELSE idx[r + 1]>>]
                ELSE 0
  IN  Tensor(SubSeq(t.shape, 1, r - 1) \o <<n, n>>, f)

\* at::diagonal(self, offset, 0, 1): the diagonal of dimensions 0 and 1 is
\* appended as the last dimension of the result
at_diagonal(t, offset) ==
  LET r == Rank(t)
      len == DiagLen(t.shape[1], t.shape[2], offset)
      f(idx) == LET k == idx[r - 1]
                IN  t.at[(IF offset >= 0 THEN <<k, k + offset>> ELSE <<k - offset, k>>)
                         \o SubSeq(idx, 1, r - 2)]
  IN  Tensor(SubSeq(t.shape, 3, r) \o <<len>>, f)

\* at::diag(self, diagonal): a vector gives the matrix with it on the
\* diagonal, a matrix gives its diagonal, every other rank is an error
CanDiag(t) == Rank(t) \in {1, 2}
at_diag(t, diagonal) ==
  IF Rank(t) = 1 THEN at_diag_embed(t, diagonal) ELSE at_diagonal(t, diagonal)

\* at::_unsafe_view(self, size) of a contiguous tensor: same elements in
\* row-major order under the new shape
CanView(t, size) == Prod(size) = Numel(t)
at_unsafe_view(t, size) ==
  LET f(idx) == t.at[Unravel(t.shape, Linear(size, idx))] IN Tensor(size, f)

\* Tensor::select(dim, index): the slice at one position of one dimension
at_select(t, dim, b) ==
  LET f(idx) == t.at[InsertAt(idx, dim, b)] IN Tensor(RemoveAt(t.shape, dim), f)

\* ------------------------------------------- batch-dimension utilities
rankWithoutBatchDim(t, bdim) == IF has_value(bdim) THEN Rank(t) - 1 ELSE Rank(t)

moveBatchDimToFront(t, bdim) ==
  IF ~has_value(bdim) THEN t
  ELSE IF value(bdim) = 0 THEN t
  ELSE at_movedim(t, value(bdim), 0)

CanGetPhysicalDim(t, has_bdim, logical_dim) ==
  logical_dim \in WrapRange(rankWithoutBatchDim(t, IF has_bdim THEN Some(0) ELSE nullopt))
getPhysicalDim(t, has_bdim, logical_dim) ==
  LET rank == rankWithoutBatchDim(t, IF has_bdim THEN Some(0) ELSE nullopt)
      wrapped_dim == maybe_wrap_dim(logical_dim, rank)
  IN  IF has_bdim THEN wrapped_dim + 1 ELSE wrapped_dim

\* ------------------------------------------------------- rule results
NoTensor == [shape |-> <<>>, at |-> <<>>]
Ok(t, bdim) == [kind |-> "ok", t |-> t, bdim |-> bdim]
Err == [kind |-> "error", t |-> NoTensor, bdim |-> nullopt]
Crash == [kind |-> "crash", t |-> NoTensor, bdim |-> nullopt]
NoResult == [kind |-> "none", t |-> NoTensor, bdim |-> nullopt]

\* ------------------------------------------------------ batching rules
\* faulty variant: the wrapped dim is not shifted past the batch axis
unsqueeze_batch_rule_noshift(self, self_bdim, dim) ==
  LET self_ == moveBatchDimToFront(self, self_bdim)
      rank == rankWithoutBatchDim(self, self_bdim)
  IN  IF dim \notin WrapRange(rank + 1) THEN Err
      ELSE LET d == maybe_wrap_dim(dim, rank + 1)
           IN  IF ~CanUnsqueeze(self_, d) THEN Err
               ELSE Ok(at_unsqueeze(self_, d), Some(0))

\* lines 87-95
unsqueeze_batch_rule(self, self_bdim, dim) ==
  LET self_ == moveBatchDimToFront(self, self_bdim)
      rank == rankWithoutBatchDim(self, self_bdim)
  IN  IF dim \notin WrapRange(rank + 1) THEN Err
      ELSE LET d == maybe_wrap_dim(dim, rank + 1) + 1
           IN  IF ~CanUnsqueeze(self_, d) THEN Err
               ELSE Ok(at_unsqueeze(self_, d), Some(0))

\* lines 106-108: while (self_.dim() < sizes_with_bdim.size()) self_ = self_.unsqueeze(1)
RECURSIVE CanPadRank(_, _)
CanPadRank(t, n) ==
  Rank(t) >= n \/ (CanUnsqueeze(t, 1) /\ CanPadRank(at_unsqueeze(t, 1), n))
RECURSIVE PadRank(_, _)
PadRank(t, n) == IF Rank(t) < n THEN PadRank(at_unsqueeze(t, 1), n) ELSE t

\* faulty variant: the factor 1 of the batch axis is appended instead of prepended
repeat_batch_rule_factor_at_end(self, self_bdim, sizes) ==
  LET sizes_with_bdim == sizes \o <<1>>
      self_ == moveBatchDimToFront(self, self_bdim)
  IN  IF ~CanPadRank(self_, Len(sizes_with_bdim)) THEN Err
      ELSE LET padded == PadRank(self_, Len(sizes_with_bdim))
           IN  IF ~CanRepeat(padded, sizes_with_bdim) THEN Err
               ELSE Ok(at_repeat(padded, sizes_with_bdim), Some(0))

\* lines 98-110
repeat_batch_rule(self, self_bdim, sizes) ==
  LET sizes_with_bdim == <<1>> \o sizes
      self_ == moveBatchDimToFront(self, self_bdim)
  IN  IF ~CanPadRank(self_, Len(sizes_with_bdim)) THEN Err
      ELSE LET padded == PadRank(self_, Len(sizes_with_bdim))
           IN  IF ~CanRepeat(padded, sizes_with_bdim) THEN Err
               ELSE Ok(at_repeat(padded, sizes_with_bdim), Some(0))

\* faulty variant: the batch axis is not moved to the end before the diagonal is taken
diag_batch_rule_no_movedim(input, input_bdim, diagonal) ==
  IF ~has_value(input_bdim)
  THEN IF CanDiag(input) THEN Ok(at_diag(input, diagonal), nullopt) ELSE Err
  ELSE LET input_ == moveBatchDimToFront(input, input_bdim)
           rank == rankWithoutBatchDim(input, input_bdim)
       IN  IF rank = 1 THEN Ok(at_diag_embed(input_, diagonal), Some(0))
           ELSE IF rank = 2 THEN Ok(at_diagonal(input_, diagonal), Some(rank - 2))
           ELSE Err

\* faulty variant: every rank above 1 takes the matrix branch, nothing is rejected
diag_batch_rule_no_rank_check(input, input_bdim, diagonal) ==
  IF ~has_value(input_bdim)
  THEN IF CanDiag(input) THEN Ok(at_diag(input, diagonal), nullopt) ELSE Err
  ELSE LET input_ == moveBatchDimToFront(input, input_bdim)
           rank == rankWithoutBatchDim(input, input_bdim)
       IN  IF rank = 1 THEN Ok(at_diag_embed(input_, diagonal), Some(0))
           ELSE IF rank >= 2
           THEN Ok(at_diagonal(at_movedim(input_, 0, Rank(input_) - 1), diagonal),
                   Some(rank - 2))
           ELSE Err

\* lines 113-130
diag_batch_rule(input, input_bdim, diagonal) ==
  IF ~has_value(input_bdim)
  THEN IF CanDiag(input) THEN Ok(at_diag(input, diagonal), nullopt) ELSE Err
  ELSE LET input_ == moveBatchDimToFront(input, input_bdim)
           rank == rankWithoutBatchDim(input, input_bdim)
       IN  IF rank = 1 THEN Ok(at_diag_embed(input_, diagonal), Some(0))
           ELSE IF rank = 2
           THEN Ok(at_diagonal(at_movedim(input_, 0, Rank(input_) - 1), diagonal),
                   Some(rank - 2))
           ELSE Err

\* lines 132-140.  The rule returns the set of outcomes the call can have:
\* one outcome where the code is defined; where it dereferences an empty
\* optional (line 137, *self_bdim) or inserts past the end of view_size
\* (line 137, begin() + *self_bdim > end()) the behaviour is undefined and
\* the call may crash, fail in a later check, or go on with the value read.
ViewAt(self, p, size, out_bdim) ==
  LET view_size == InsertAt(size, p, self.shape[p + 1])
  IN  IF CanView(self, view_size) THEN Ok(at_unsafe_view(self, view_size), out_bdim) ELSE Err

unsafe_view_batch_rule(self, self_bdim, size) ==
  IF has_value(self_bdim)
  THEN IF value(self_bdim) <= Len(size)
       THEN {ViewAt(self, value(self_bdim), size, self_bdim)}
       ELSE {Crash, Err}
  ELSE {Crash, Err} \cup
       {ViewAt(self, v, size, self_bdim) : v \in 0..Min(Rank(self) - 1, Len(size))}

\* lines 146-153
flip_batch_rule(self, self_bdim, dims) ==
  LET self_ == moveBatchDimToFront(self, self_bdim)
  IN  IF \E i \in 1..Len(dims) : ~CanGetPhysicalDim(self, TRUE, dims[i]) THEN Err
      ELSE LET new_dims == [i \in 1..Len(dims) |-> getPhysicalDim(self, TRUE, dims[i])]
           IN  IF ~CanFlip(self_, new_dims) THEN Err
               ELSE Ok(at_flip(self_, new_dims), Some(0))

\* ------------------------------------------------------------- resize_
\* The tensor a BatchedTensor wraps, as resize_ sees it: contiguous sizes
\* over a flat storage at offset 0.  Element j of the tensor is storage[j+1].
Uninit == 0

\* Tensor::resize_(size): equal sizes are a no-op; otherwise the sizes are
\* replaced, the storage keeps its elements in place and grows (never
\* shrinks) to hold the new number of elements, the added ones uninitialized
NeedsGrowth(v, size) == size # v.sizes /\ Prod(size) > Len(v.storage)
at_resize_(v, size) ==
  IF size = v.sizes THEN v
  ELSE [sizes |-> size,
        storage |-> v.storage \o
                    [i \in 1..(Prod(size) - Len(v.storage)) |-> Uninit]]

\* unwrapTensorAtLevel(self, level): the batch-dim index of the wrapper when
\* self is a BatchedTensor of this level, nullopt otherwise
unwrapTensorAtLevel(isBatched, wrapper_level, wrapper_bdim, level) ==
  IF isBatched /\ wrapper_level = level THEN Some(wrapper_bdim) ELSE nullopt

\* BatchedTensorImpl::refreshSizesAndStrides(): the wrapper's sizes are the
\* sizes of the wrapped tensor without the batch axis
refreshSizesAndStrides(v, wrapper_bdim) == RemoveAt(v.sizes, wrapper_bdim)

\* --------------------------------------------------------------- state
VARIABLES
  op,         \* the operator being called
  self,       \* a batching rule's input tensor
  self_bdim,  \* its batch-dim index (in resize_: the local of line 168)
  dim,        \* unsqueeze's dim, diag's diagonal
  sizes,      \* repeat's sizes, _unsafe_view's size, flip's dims, resize_'s size
  res,        \* what a batching rule returned
  pc,         \* position of the call
  batched,    \* resize_: self is a BatchedTensor
  wlevel,     \* resize_: the wrapper's vmap level
  wbdim,      \* resize_: the wrapper's batch-dim index
  wsizes,     \* resize_: the wrapper's cached sizes
  wvalue,     \* resize_: the tensor the wrapper holds
  excluded,   \* kBatchedKey is in the thread's excluded dispatch-key set
  fmt,        \* resize_: optional_memory_format
  layer,      \* resize_: maybeCurrentDynamicLayer()
  guard,      \* resize_: the ExcludeDispatchKeyGuard of line 178, once built:
              \*          whether it added the key and so removes it again
  new_size,   \* resize_: the local of line 180
  ret,        \* resize_: how the last call ended
  pre,        \* resize_: wvalue, wsizes, excluded as they were at the call
  calls       \* resize_: calls made so far

vars == <<op, self, self_bdim, dim, sizes, res, pc, batched, wlevel, wbdim, wsizes,
          wvalue, excluded, fmt, layer, guard, new_size, ret, pre, calls>>

ruleVars == <<op, self, self_bdim, dim, sizes>>
resizeVars == <<batched, wlevel, wbdim, wsizes, wvalue, excluded, fmt, layer, guard,
                new_size, ret, pre, calls>>

\* -------------------------------------------------------------- inputs
Shapes == {s \in SeqsUpTo(1..MaxDim, MaxRank) : Prod(s) <= MaxNumel}
Bdims(shape) == {nullopt} \cup {Some(i) : i \in 0..(Len(shape) - 1)}
\* dimension arguments: every valid logical dim of a tensor of this rank and
\* the first invalid one on each side
DimArgs(rank) == (-(rank + 2))..(rank + 1)
Offsets == (-MaxOffset)..MaxOffset
RepeatArgs == SeqsUpTo(1..MaxRepeat, MaxArgs)
SizeArgs == {s \in SeqsUpTo(1..MaxNumel, MaxArgs) : Prod(s) <= MaxNumel}
FlipArgs(rank) == SeqsUpTo((-(rank + 1))..rank, MaxArgs)

\* resize_: per-slot shapes, memory formats, vmap levels
SlotShapes == {<<>>, <<1>>, <<2>>, <<3>>, <<1, 2>>, <<2, 1>>}
Formats == {nullopt, Some("Contiguous"), Some("ChannelsLast")}
Levels == {1, 2}
NoSnapshot == [wvalue |-> [sizes |-> <<>>, storage |-> <<>>], wsizes |-> <<>>,
               excluded |-> FALSE]

InitRule ==
  /\ \E shape \in Shapes :
       /\ self = Iota(shape)
       /\ self_bdim \in Bdims(shape)
  /\ \/ op = "unsqueeze" /\ dim \in DimArgs(Rank(self)) /\ sizes = <<>>
     \/ op = "repeat" /\ dim = 0 /\ sizes \in RepeatArgs
     \/ op = "diag" /\ dim \in Offsets /\ sizes = <<>>
     \/ op = "_unsafe_view" /\ dim = 0 /\ sizes \in SizeArgs
     \/ op = "flip" /\ dim = 0 /\ sizes \in FlipArgs(Rank(self))
  /\ res = NoResult
  /\ pc = "start"
  /\ batched = FALSE /\ wlevel = 1 /\ wbdim = 0 /\ wsizes = <<>>
  /\ wvalue = NoSnapshot.wvalue
  /\ excluded = FALSE /\ fmt = nullopt /\ layer = nullopt /\ guard = nullopt
  /\ new_size = <<>> /\ ret = "none" /\ pre = NoSnapshot /\ calls = 0

\* a tensor with the batch axis (size B) at wbdim, elements 1, 2, 3, ...;
\* self is either a BatchedTensor holding it or the plain tensor itself
InitResize ==
  /\ op = "resize_" /\ pc = "idle"
  /\ self = NoTensor /\ self_bdim = nullopt /\ dim = 0 /\ sizes = <<>>
  /\ res = NoResult
  /\ \E B \in 1..MaxBatch, slot \in SlotShapes, p \in 0..1 :
       /\ p <= Len(slot)
       /\ wbdim = p
       /\ wvalue = [sizes |-> InsertAt(slot, p, B),
                    storage |-> [i \in 1..(B * Prod(slot)) |-> i]]
       /\ batched \in BOOLEAN
       /\ wsizes = IF batched THEN slot ELSE wvalue.sizes
  /\ wlevel = 1
  /\ excluded \in BOOLEAN
  /\ fmt = nullopt /\ layer = nullopt /\ guard = nullopt
  /\ new_size = <<>> /\ ret = "none" /\ pre = NoSnapshot /\ calls = 0

Init == InitRule \/ InitResize

\* ------------------------------------------------------------- actions
CallUnsqueeze ==
  /\ op = "unsqueeze" /\ pc = "start"
  /\ res' = unsqueeze_batch_rule(self, self_bdim, dim)
  /\ pc' = "done"
  /\ UNCHANGED <<ruleVars, resizeVars>>

CallRepeat ==
  /\ op = "repeat" /\ pc = "start"
  /\ res' = repeat_batch_rule(self, self_bdim, sizes)
  /\ pc' = "done"
  /\ UNCHANGED <<ruleVars, resizeVars>>

CallDiag ==
  /\ op = "diag" /\ pc = "start"
  /\ res' = diag_batch_rule(self, self_bdim, dim)
  /\ pc' = "done"
  /\ UNCHANGED <<ruleVars, resizeVars>>

CallUnsafeView ==
  /\ op = "_unsafe_view" /\ pc = "start"
  /\ res' \in unsafe_view_batch_rule(self, self_bdim, sizes)
  /\ pc' = "done"
  /\ UNCHANGED <<ruleVars, resizeVars>>

CallFlip ==
  /\ op = "flip" /\ pc = "start"
  /\ res' = flip_batch_rule(self, self_bdim, sizes)
  /\ pc' = "done"
  /\ UNCHANGED <<ruleVars, resizeVars>>

\* resize__plumbing, lines 155-190, statement by statement.  A failed check
\* throws: the call goes to "unwind", where the locals are destroyed.
ResizeCall ==
  /\ op = "resize_" /\ pc \in {"idle", "returned", "failed"}
  /\ calls < MaxCalls
  /\ sizes' \in SlotShapes
  /\ fmt' \in Formats
  /\ layer' \in {nullopt} \cup {Some(l) : l \in Levels}
  /\ pre' = [wvalue |-> wvalue, wsizes |-> wsizes, excluded |-> excluded]
  /\ self_bdim' = nullopt /\ guard' = nullopt /\ new_size' = <<>>
  /\ ret' = "none"
  /\ calls' = calls + 1
  /\ pc' = "check_format"
  /\ UNCHANGED <<op, self, dim, res, batched, wlevel, wbdim, wsizes, wvalue, excluded>>

\* lines 159-162
CheckFormat ==
  /\ pc = "check_format"
  /\ pc' = IF ~has_value(fmt) \/ fmt = Some("Contiguous") THEN "get_layer" ELSE "unwind"
  /\ UNCHANGED <<ruleVars, res, resizeVars>>

\* lines 163-165
GetLayer ==
  /\ pc = "get_layer"
  /\ pc' = IF has_value(layer) THEN "unwrap" ELSE "unwind"
  /\ UNCHANGED <<ruleVars, res, resizeVars>>

\* lines 167-170
Unwrap ==
  /\ pc = "unwrap"
  /\ self_bdim' = unwrapTensorAtLevel(batched, wlevel, wbdim, value(layer))
  /\ pc' = IF has_value(self_bdim') THEN "check_bdim" ELSE "unwind"
  /\ UNCHANGED <<op, self, dim, sizes, res, resizeVars>>

\* faulty variant: the batch-dim index is not checked before the mutation
CheckBdim_skipped ==
  /\ pc = "check_bdim"
  /\ pc' = "guard"
  /\ UNCHANGED <<ruleVars, res, resizeVars>>

\* line 175
CheckBdim ==
  /\ pc = "check_bdim"
  /\ pc' = IF value(self_bdim) = 0 THEN "guard" ELSE "unwind"
  /\ UNCHANGED <<ruleVars, res, resizeVars>>

\* line 178: the guard adds kBatchedKey to the excluded set unless it is
\* already there, and remembers whether it did
Guard ==
  /\ pc = "guard"
  /\ guard' = Some(~excluded)
  /\ excluded' = TRUE
  /\ pc' = "new_size"
  /\ UNCHANGED <<ruleVars, res, batched, wlevel, wbdim, wsizes, wvalue, fmt, layer,
                 new_size, ret, pre, calls>>

\* lines 179-181: self_value stays the wrapped tensor itself (the batch axis
\* is at 0 already) and new_size is the batch size followed by size
NewSize ==
  /\ pc = "new_size"
  /\ new_size' = InsertAt(sizes, 0, wvalue.sizes[value(self_bdim) + 1])
  /\ pc' = "resize"
  /\ UNCHANGED <<ruleVars, res, batched, wlevel, wbdim, wsizes, wvalue, excluded, fmt,
                 layer, guard, ret, pre, calls>>

\* line 182: the wrapped tensor is resized in place; a resize that has to
\* grow the storage can fail, and then throws with the tensor untouched
Resize ==
  /\ pc = "resize"
  /\ \/ /\ wvalue' = at_resize_(wvalue, new_size)
        /\ pc' = "refresh"
     \/ /\ NeedsGrowth(wvalue, new_size)
        /\ wvalue' = wvalue
        /\ pc' = "unwind"
  /\ UNCHANGED <<ruleVars, res, batched, wlevel, wbdim, wsizes, excluded, fmt, layer,
                 guard, new_size, ret, pre, calls>>

\* faulty variant: the wrapper's cached sizes are not refreshed
Refresh_skipped ==
  /\ pc = "refresh"
  /\ wsizes' = wsizes
  /\ pc' = IF batched THEN "return" ELSE "unwind"
  /\ UNCHANGED <<ruleVars, res, batched, wlevel, wbdim, wvalue, excluded, fmt, layer,
                 guard, new_size, ret, pre, calls>>

\* lines 185-187
Refresh ==
  /\ pc = "refresh"
  /\ IF batched
     THEN /\ wsizes' = refreshSizesAndStrides(wvalue, wbdim)
          /\ pc' = "return"
     ELSE /\ wsizes' = wsizes
          /\ pc' = "unwind"
  /\ UNCHANGED <<ruleVars, res, batched, wlevel, wbdim, wvalue, excluded, fmt, layer,
                 guard, new_size, ret, pre, calls>>

\* lines 189-190: self is returned and the guard is destroyed
Return ==
  /\ pc = "return"
  /\ excluded' = IF has_value(guard) /\ value(guard) THEN FALSE ELSE excluded
  /\ ret' = "self"
  /\ pc' = "returned"
  /\ UNCHANGED <<ruleVars, res, batched, wlevel, wbdim, wsizes, wvalue, fmt, layer,
                 guard, new_size, pre, calls>>

\* faulty variant: the suppression is undone on the normal exit only
Unwind_keeps_suppression ==
  /\ pc = "unwind"
  /\ excluded' = excluded
  /\ ret' = "error"
  /\ pc' = "failed"
  /\ UNCHANGED <<ruleVars, res, batched, wlevel, wbdim, wsizes, wvalue, fmt, layer,
                 guard, new_size, pre, calls>>

\* an exception leaves the function: the guard, if built, is destroyed
Unwind ==
  /\ pc = "unwind"
  /\ excluded' = IF has_value(guard) /\ value(guard) THEN FALSE ELSE excluded
  /\ ret' = "error"
  /\ pc' = "failed"
  /\ UNCHANGED <<ruleVars, res, batched, wlevel, wbdim, wsizes, wvalue, fmt, layer,
                 guard, new_size, pre, calls>>

Next ==
  \/ CallUnsqueeze
  \/ CallRepeat
  \/ CallDiag
  \/ CallUnsafeView
  \/ CallFlip
  \/ ResizeCall
  \/ CheckFormat
  \/ GetLayer
  \/ Unwrap
  \/ CheckBdim
  \/ Guard
  \/ NewSize
  \/ Resize
  \/ Refresh
  \/ Return
  \/ Unwind

Spec == Init /\ [][Next]_vars

\* ---------------------------------------------------- claim vocabulary
Batched == has_value(self_bdim)
\* the batch size and the unbatched rank of the rule's input
BatchSize == self.shape[value(self_bdim) + 1]
LogicalRank == rankWithoutBatchDim(self, self_bdim)
\* slot b of the input, and of the result at the reported batch-dim index
SelfSlot(b) == at_select(self, value(self_bdim), b)
ResSlot(b) == at_select(res.t, value(res.bdim), b)
\* the reported index is an axis of the result and that axis has the batch size
ResBdimValid ==
  /\ has_value(res.bdim)
  /\ value(res.bdim) \in 0..(Rank(res.t) - 1)
  /\ res.t.shape[value(res.bdim) + 1] = BatchSize

\* the plain operator applied to the same tensor and the same arguments
PlainResult ==
  CASE op = "unsqueeze" ->
         IF CanUnsqueeze(self, dim) THEN Ok(at_unsqueeze(self, dim), nullopt) ELSE Err
    [] op = "repeat" ->
         IF CanRepeat(self, sizes) THEN Ok(at_repeat(self, sizes), nullopt) ELSE Err
    [] op = "diag" ->
         IF CanDiag(self) THEN Ok(at_diag(self, dim), nullopt) ELSE Err
    [] op = "_unsafe_view" ->
         IF CanView(self, sizes) THEN Ok(at_unsafe_view(self, sizes), nullopt) ELSE Err
    [] op = "flip" ->
         IF CanFlip(self, sizes) THEN Ok(at_flip(self, sizes), nullopt) ELSE Err

\* C2: with the batch-dim index absent every rule returns exactly what the
\* plain operator returns on the same tensor and arguments, and reports no
\* batch-dim index.
C2_AbsentBdimIsPlainOperator ==
  (pc = "done" /\ ~Batched) => res = PlainResult

\* C3: for a batched input of unbatched rank 1 or 2, diag succeeds, the
\* reported batch-dim index is an axis of the result of the batch size, and
\* slot b of the result is the plain diag of slot b of the input.
C3_DiagBatchingConsistency ==
  (pc = "done" /\ op = "diag" /\ Batched /\ LogicalRank \in {1, 2}) =>
    /\ res.kind = "ok"
    /\ ResBdimValid
    /\ \A b \in 0..(BatchSize - 1) : ResSlot(b) = at_diag(SelfSlot(b), dim)

C3_Witness ==
  /\ pc = "done" /\ op = "diag" /\ res.kind = "ok"
  /\ self_bdim = Some(1) /\ self.shape = <<2, 2, 2>> /\ dim = 1

\* C4: for a batched input whose unbatched rank is neither 1 nor 2, diag
\* ends in the error and returns no tensor.
C4_DiagInvalidRankIsError ==
  (pc = "done" /\ op = "diag" /\ Batched /\ LogicalRank \notin {1, 2}) => res = Err

C4_Witness ==
  /\ pc = "done" /\ op = "diag" /\ Batched /\ LogicalRank = 3 /\ res = Err

\* C5: for a batched input of unbatched rank r and a logical dim d in
\* [-(r+1), r], unsqueeze returns a tensor of physical rank r+2 with the
\* batch axis at 0 (reported index 0), the new singleton axis at physical
\* axis 1 + wrapped d, and each slot equal to the plain unsqueeze of the slot.
C5_UnsqueezeAfterBatchAxis ==
  (pc = "done" /\ op = "unsqueeze" /\ Batched /\ dim \in WrapRange(LogicalRank + 1)) =>
    LET d == maybe_wrap_dim(dim, LogicalRank + 1)
    IN  /\ res.kind = "ok"
        /\ Rank(res.t) = LogicalRank + 2
        /\ res.bdim = Some(0)
        /\ res.t.shape[1] = BatchSize
        /\ res.t.shape[1 + d + 1] = 1
        /\ RemoveAt(res.t.shape, 1 + d) = moveBatchDimToFront(self, self_bdim).shape
        /\ \A b \in 0..(BatchSize - 1) : ResSlot(b) = at_unsqueeze(SelfSlot(b), dim)

C5_Witness ==
  /\ pc = "done" /\ op = "unsqueeze" /\ self_bdim = Some(1) /\ dim = 0
  /\ self.shape = <<1, 2>> /\ res.kind = "ok" /\ res.t.shape = <<2, 1, 1>>

\* C6: for a batched input of unbatched rank r and k >= r repeat factors,
\* the result has the batch size at axis 0 (reported index 0), the padded
\* input has rank k+1 with the added singleton axes right after the batch
\* axis, and slot b of the result is the plain repeat of slot b of the input.
C6_RepeatPerSlot ==
  (pc = "done" /\ op = "repeat" /\ Batched /\ Len(sizes) >= LogicalRank) =>
    LET front == moveBatchDimToFront(self, self_bdim)
        padded == PadRank(front, Len(sizes) + 1)
        pad == Len(sizes) - LogicalRank
    IN  /\ res.kind = "ok"
        /\ res.bdim = Some(0)
        /\ Rank(res.t) = Len(sizes) + 1
        /\ res.t.shape[1] = BatchSize
        /\ Rank(padded) = Len(sizes) + 1
        /\ padded.shape = <<BatchSize>> \o [i \in 1..pad |-> 1] \o Tail(front.shape)
        /\ \A b \in 0..(BatchSize - 1) : ResSlot(b) = at_repeat(SelfSlot(b), sizes)

C6_Witness ==
  /\ pc = "done" /\ op = "repeat" /\ self_bdim = Some(1) /\ self.shape = <<2, 2>>
  /\ sizes = <<2, 2>> /\ res.kind = "ok" /\ res.t.shape = <<2, 2, 4>>

\* C8: every returned batch-dim index is an axis of the returned tensor of
\* the batch size; for _unsafe_view with batch-dim index p and a target shape
\* of length k, p <= k, and a returned view has the batch size at axis p.
C8_ReturnedBdimIsValidAxis ==
  (pc = "done" /\ Batched) =>
    /\ res.kind = "ok" => ResBdimValid
    /\ op = "_unsafe_view" =>
         /\ value(self_bdim) <= Len(sizes)
         /\ res.kind = "ok" => res.bdim = self_bdim

\* ------------------------------------------------------ resize_ claims
Ended == pc \in {"returned", "failed"}

\* C1: resizing per-slot shape [n] to [m], m >= n, returns self, leaves the
\* wrapped tensor with sizes [B, m], and every slot b keeps its first n values.
C1_ResizeKeepsEverySlot ==
  (pc = "returned" /\ Len(pre.wsizes) = 1 /\ Len(sizes) = 1 /\ sizes[1] >= pre.wsizes[1]) =>
    LET B == pre.wvalue.sizes[1]
        n == pre.wsizes[1]
        m == sizes[1]
    IN  /\ ret = "self"
        /\ wvalue.sizes = <<B, m>>
        /\ \A b \in 0..(B - 1), j \in 0..(n - 1) :
             wvalue.storage[b * m + j + 1] = pre.wvalue.storage[b * n + j + 1]

\* C7: when a resize_ call has ended, normally or in an error at any step,
\* the suppression of the batching layer is what it was before the call.
C7_SuppressionRestored ==
  Ended => excluded = pre.excluded

C7_Witness ==
  /\ pc = "failed" /\ has_value(guard) /\ value(guard)
  /\ ~excluded /\ ~pre.excluded

\* the call's arguments or the wrapper break one of the checks of lines 159-175
PreconditionFails ==
  \/ has_value(fmt) /\ fmt # Some("Contiguous")
  \/ ~has_value(layer)
  \/ ~has_value(unwrapTensorAtLevel(batched, wlevel, wbdim, value(layer)))
  \/ wbdim # 0

\* C9: a call that breaks a precondition ends in an error, not returning
\* self, with the wrapped tensor, the cached sizes and the suppression state
\* as they were before the call.
C9_ChecksBeforeMutation ==
  (Ended /\ PreconditionFails) =>
    /\ pc = "failed" /\ ret = "error"
    /\ wvalue = pre.wvalue
    /\ wsizes = pre.wsizes
    /\ excluded = pre.excluded

C9_Witness ==
  /\ pc = "failed" /\ ~has_value(fmt) /\ has_value(layer)
  /\ batched /\ value(layer) = wlevel /\ wbdim = 1
  /\ sizes # pre.wsizes

====
